---- MODULE Spec2Model ----
(***************************************************************************)
(* chrlogin.c: the setuid-root login shim that moves a user into a chroot  *)
(* jail and executes a fixed shell there.  main() is straight-line code;   *)
(* each step of it is one action, and pc names the next step.              *)
(*                                                                         *)
(* Strings are sequences of one-character strings.  A buffer variable      *)
(* holds the C string a reader of the buffer sees (the characters up to    *)
(* the first NUL).  The answers of the kernel and of the password          *)
(* databases are chosen by the environment inside the action that asks.    *)
(***************************************************************************)
EXTENDS Integers, Sequences, FiniteSets, TLC

VARIABLES
  pc,          \* the next step of main(), or "exited" / "shell"
  euid,        \* effective uid of the process
  ruid,        \* real uid of the process
  suid,        \* saved set-user-id of the process
  real_user,   \* int real_user = getuid()
  start,       \* the invocation: the uids, argv and environment login handed over
  pw_ent,      \* <<>> for NULL, else <<record>> of the last getpwuid()
  outer_rec,   \* <<record>> returned by the host lookup, <<>> before / if none
  chroot_dir,  \* char chroot_dir[MAX_STRING]
  shell,       \* char shell[MAX_STRING]
  home_dir,    \* char home_dir[MAX_STRING]
  cnt,         \* int cnt
  argv,        \* the argument vector
  envp,        \* the array main() received as envp
  environ,     \* the array the C library's environ points to
  cwd,         \* working directory: the root in force at the chdir and its path
  root,        \* filesystem root: <<>> for the host root, else <<jail path>>
  calls,       \* the calls observed so far, oldest first
  diag,        \* the diagnostics written to stderr, oldest first
  exit_code,   \* {} while running, {status} once the process has exited
  oob          \* the buffers written at an index outside 0..MAX_STRING-1

vars == << pc, euid, ruid, suid, real_user, start, pw_ent, outer_rec, chroot_dir, shell,
           home_dir, cnt, argv, envp, environ, cwd, root, calls, diag, exit_code, oob >>

(***************************************************************************)
(* Configuration parameters and constants of the program.                  *)
(***************************************************************************)
SHELL == << "/", "b", "i", "n", "/", "b", "a", "s", "h" >>

CHROOT_LEVEL == 2

MAX_STRING == 1024

HOME_PREFIX == << "H", "O", "M", "E", "=" >>

(***************************************************************************)
(* Bounds of the model.                                                    *)
(***************************************************************************)
\* short home paths: every string over {"/", "a"} of at most this length
MaxLen == 5
\* how far beyond MAX_STRING the longest home path reaches
LongExtra == 70
\* the arguments after argv[0]
MaxArgs == 1
\* the largest chroot level the walk is tried with
MaxLevel == 3

(***************************************************************************)
(* Inputs.                                                                 *)
(***************************************************************************)
Pad(n) == [i \in 1..n |-> "a"]

Uids == {0, 1000}

ShortPaths == UNION { [1..n -> {"/", "a"}] : n \in 0..MaxLen }

\* "/" a^n "/a/a": the third separator sits at 0-based position n + 3
LongPath(n) == << "/" >> \o Pad(n) \o << "/", "a", "/", "a" >>

LongPads == { MAX_STRING - 13, MAX_STRING - 12, MAX_STRING - 11,
              MAX_STRING - 5, MAX_STRING - 4, MAX_STRING - 3, MAX_STRING + LongExtra }

\* the paths of the reference installation
Jail == << "/", "j", "a", "i", "l" >>
HomeJoe == << "/", "h", "o", "m", "e", "/", "j", "o", "e" >>

HomePaths == ShortPaths \cup { LongPath(n) : n \in LongPads } \cup { Jail \o HomeJoe }

ChrLogin == << "/", "c", "h", "r", "l", "o", "g", "i", "n" >>

BinSh == << "/", "b", "i", "n", "/", "s", "h" >>

\* the records the host password database may hold for the user
OuterRecords == { [pw_dir |-> d, pw_shell |-> ChrLogin] : d \in HomePaths }

InnerHomes == { << >>, << "a" >>, << "/", "a" >>,
                << "/" >> \o Pad(MAX_STRING - 7),
                << "/" >> \o Pad(MAX_STRING - 6),
                << "/" >> \o Pad(MAX_STRING - 5) }

\* the records the jailed password database may hold for the user
InnerRecords ==
  { [pw_dir |-> d, pw_shell |-> BinSh] : d \in InnerHomes }
    \cup { [pw_dir |-> << "/", "a" >>, pw_shell |-> SHELL],
           [pw_dir |-> HomeJoe, pw_shell |-> SHELL] }

EnvP == << "P", "=", "1" >>
EnvHome == << "H", "O", "M", "E", "=", "/", "x" >>
EnvHomer == << "H", "O", "M", "E", "R", "=", "1" >>

Envs == { << >>, << EnvHome >>, << EnvP, EnvHome >>, << EnvHome, EnvP >>,
          << EnvHomer, EnvP >> }

Arg0 == << "-", "c", "h", "r" >>
ArgC == << "-", "c" >>

Argvs == { << Arg0 >> \o [i \in 1..n |-> ArgC] : n \in 0..MaxArgs }

\* what a path may name: nothing, a regular file, a directory, a character
\* device, a socket, or a symbolic link to one of these
ObjKinds == { "none", "reg", "dir", "chr", "sock",
              "lnk_reg", "lnk_dir", "lnk_none" }

\* the content of a stack byte the program never wrote: NUL or some character
GarbageChars == { "NUL", "/", "x" }

(***************************************************************************)
(* The C library.                                                          *)
(***************************************************************************)
Min(a, b) == IF a < b THEN a ELSE b

Take(s, n) == SubSeq(s, 1, Min(Len(s), n))

\* strncpy(dest, src, n) writes dest[0..n-1]: the first n characters of src,
\* NUL-padded when src is shorter.  str: the characters written; term: whether
\* a NUL is among the n bytes written.
strncpy(src, n) == [ str |-> Take(src, n), term |-> Len(src) < n ]

\* strncat(dest, src, n) appends at most n characters of src to the string in
\* dest and then a NUL.  str: the string; nul: the index the NUL is written at.
strncat(dest, src, n) ==
  [ str |-> dest \o Take(src, n), nul |-> Len(dest) + Min(Len(src), n) ]

\* strcpy(dest, src)
strcpy(src) == src

\* exit(v): the status the parent sees
ExitStatus(v) == v % 256

\* stat() follows symbolic links: the kind of the object a path resolves to
StatKind(obj) ==
  CASE obj = "lnk_reg" -> "reg"
    [] obj = "lnk_dir" -> "dir"
    [] obj = "lnk_none" -> "none"
    [] OTHER -> obj

\* stat(path, &buf) == 0
StatOk(obj) == StatKind(obj) # "none"

\* S_ISREG(buf.st_mode) after a successful stat()
S_ISREG(obj) == StatKind(obj) = "reg"

\* the name of an environment string: the characters before the first "="
EnvName(str) ==
  LET eqs == { i \in 1..Len(str) : str[i] = "=" }
  IN IF eqs = {} THEN str
     ELSE SubSeq(str, 1, (CHOOSE i \in eqs : \A j \in eqs : i <= j) - 1)

\* putenv(str) on the array env: the first entry of the same name is replaced
\* in place; without one the C library builds a new array, one entry longer.
\* inplace tells which.
putenv(env, str) ==
  LET hits == { i \in 1..Len(env) : EnvName(env[i]) = EnvName(str) }
  IN IF hits # {}
     THEN [ env |-> [env EXCEPT ![CHOOSE i \in hits : \A j \in hits : i <= j] = str],
            inplace |-> TRUE ]
     ELSE [ env |-> Append(env, str), inplace |-> FALSE ]

(***************************************************************************)
(* The separator walk of lines 116-123, over the characters s[lo..hi] in   *)
(* order.  st is the loop's state: cnt, whether the break was taken, and   *)
(* p, the 1-based index of the character p points at.  The range is split  *)
(* in halves only to keep the evaluation shallow; the left half is walked  *)
(* before the right.                                                       *)
(***************************************************************************)
RECURSIVE Walk(_, _, _, _, _)
Walk(s, level, lo, hi, st) ==
  IF st.brk \/ lo > hi THEN st
  ELSE IF lo = hi
  THEN LET c == IF s[lo] = "/" THEN st.cnt + 1 ELSE st.cnt
       IN IF c = level
          THEN [ cnt |-> c, brk |-> TRUE, p |-> lo ]
          ELSE [ cnt |-> c, brk |-> FALSE, p |-> lo + 1 ]
  ELSE LET mid == (lo + hi) \div 2
       IN Walk(s, level, mid + 1, hi, Walk(s, level, lo, mid, st))

\* ExtractChrootDir with the count started at 0 instead of -1
ExtractChrootDir_CountFromZero(s, level) ==
  LET st == Walk(s, level, 1, Len(s), [ cnt |-> 0, brk |-> FALSE, p |-> 1 ])
  IN [ cnt |-> st.cnt,
       dir |-> IF st.brk THEN SubSeq(s, 1, st.p - 1) ELSE s ]

\* ExtractChrootDir with the cut made behind the separator instead of at it
ExtractChrootDir_KeepSeparator(s, level) ==
  LET st == Walk(s, level, 1, Len(s), [ cnt |-> -1, brk |-> FALSE, p |-> 1 ])
  IN [ cnt |-> st.cnt,
       dir |-> IF st.brk THEN SubSeq(s, 1, st.p) ELSE s ]

\* for(p = chroot_dir, cnt = -1; *p; p++) ... on the string s: the final cnt
\* and the string left in the buffer (cut at p when the break was taken)
ExtractChrootDir(s, level) ==
  LET st == Walk(s, level, 1, Len(s), [ cnt |-> -1, brk |-> FALSE, p |-> 1 ])
  IN [ cnt |-> st.cnt,
       dir |-> IF st.brk THEN SubSeq(s, 1, st.p - 1) ELSE s ]

(***************************************************************************)
(* The state after construction: the process as login starts it.           *)
(***************************************************************************)
Call(op, arg, res) == [ op |-> op, arg |-> arg, res |-> res ]

Fprintf(tag) == Call("fprintf", << tag >>, "ok")

Init ==
  /\ pc = "check_euid"
  /\ euid \in Uids
  /\ ruid \in Uids
  /\ suid = euid
  /\ real_user = ruid
  /\ pw_ent = << >>
  /\ outer_rec = << >>
  /\ chroot_dir = << >>
  /\ shell = << >>
  /\ home_dir = << >>
  /\ cnt = 0
  /\ argv \in Argvs
  /\ envp \in Envs
  /\ environ = envp
  /\ start = [ euid |-> euid, ruid |-> ruid, argv |-> argv, envp |-> envp ]
  /\ cwd = [ root |-> << >>, path |-> << >> ]
  /\ root = << >>
  /\ calls = << >>
  /\ diag = << >>
  /\ exit_code = {}
  /\ oob = {}

\* fprintf(stderr, ...); exit(v); after the calls cs of the step
Die(cs, tag, v) ==
  /\ pc' = "exited"
  /\ calls' = calls \o cs \o << Fprintf(tag) >>
  /\ diag' = Append(diag, tag)
  /\ exit_code' = { ExitStatus(v) }

\* the step went through: the calls cs were made, the next step is next
Go(cs, next) ==
  /\ pc' = next
  /\ calls' = calls \o cs
  /\ UNCHANGED << diag, exit_code >>

(***************************************************************************)
(* main(), step by step.                                                   *)
(***************************************************************************)
\* lines 76-80
CheckEuid ==
  /\ pc = "check_euid"
  /\ IF euid # 0 THEN Die(<< >>, "not_setuid_root", -1) ELSE Go(<< >>, "check_ruid")
  /\ UNCHANGED << euid, ruid, suid, real_user, start, pw_ent, outer_rec, chroot_dir, shell,
                  home_dir, cnt, argv, envp, environ, cwd, root, oob >>

\* CheckRuid without the test of line 82
CheckRuid_NoTest ==
  /\ pc = "check_ruid"
  /\ Go(<< >>, "outer_lookup")
  /\ UNCHANGED << euid, ruid, suid, real_user, start, pw_ent, outer_rec, chroot_dir, shell,
                  home_dir, cnt, argv, envp, environ, cwd, root, oob >>

\* lines 82-86
CheckRuid ==
  /\ pc = "check_ruid"
  /\ IF real_user = 0 THEN Die(<< >>, "target_is_root", -1) ELSE Go(<< >>, "outer_lookup")
  /\ UNCHANGED << euid, ruid, suid, real_user, start, pw_ent, outer_rec, chroot_dir, shell,
                  home_dir, cnt, argv, envp, environ, cwd, root, oob >>

\* OuterLookup without the test for NULL of line 91
OuterLookup_NoNullTest ==
  /\ pc = "outer_lookup"
  /\ \E r \in { << >> } \cup { << rec >> : rec \in OuterRecords } :
       /\ pw_ent' = r
       /\ outer_rec' = r
       /\ Go(<< Call("getpwuid", << real_user >>, IF r = << >> THEN "null" ELSE "ok") >>,
             "copy_home")
  /\ UNCHANGED << euid, ruid, suid, real_user, start, chroot_dir, shell,
                  home_dir, cnt, argv, envp, environ, cwd, root, oob >>

\* lines 91-95: getpwuid(real_user) against the host database
OuterLookup ==
  /\ pc = "outer_lookup"
  /\ \E r \in { << >> } \cup { << rec >> : rec \in OuterRecords } :
       /\ pw_ent' = r
       /\ outer_rec' = r
       /\ LET c == Call("getpwuid", << real_user >>, IF r = << >> THEN "null" ELSE "ok")
          IN IF r = << >> THEN Die(<< c >>, "no_host_user", -1) ELSE Go(<< c >>, "copy_home")
  /\ UNCHANGED << euid, ruid, suid, real_user, start, chroot_dir, shell,
                  home_dir, cnt, argv, envp, environ, cwd, root, oob >>

\* lines 100-101: strncpy writes chroot_dir[0..MAX_STRING-2]; the zero goes to
\* chroot_dir[MAX_STRING].  chroot_dir[MAX_STRING-1] is never written: when the
\* home path fills the copied bytes, the string runs on into that byte (g).
CopyHome ==
  /\ pc = "copy_home"
  /\ LET c == strncpy(pw_ent[1].pw_dir, MAX_STRING - 1)
     IN \E g \in (IF c.term THEN { "NUL" } ELSE GarbageChars) :
          chroot_dir' = IF c.term \/ g = "NUL" THEN c.str ELSE Append(c.str, g)
  /\ oob' = oob \cup { [ buf |-> "chroot_dir", idx |-> MAX_STRING ] }
  /\ Go(<< >>, "check_absolute")
  /\ UNCHANGED << euid, ruid, suid, real_user, start, pw_ent, outer_rec, shell,
                  home_dir, cnt, argv, envp, environ, cwd, root >>

\* lines 103-106: a diagnostic, and no exit
CheckAbsolute ==
  /\ pc = "check_absolute"
  /\ IF chroot_dir = << >> \/ chroot_dir[1] # "/"
     THEN /\ calls' = Append(calls, Fprintf("home_not_absolute"))
          /\ diag' = Append(diag, "home_not_absolute")
     ELSE UNCHANGED << calls, diag >>
  /\ pc' = "stat_home"
  /\ UNCHANGED << euid, ruid, suid, real_user, start, pw_ent, outer_rec, chroot_dir, shell,
                  home_dir, cnt, argv, envp, environ, cwd, root, exit_code, oob >>

\* lines 108-111: stat(chroot_dir); a diagnostic, and no exit
StatHome ==
  /\ pc = "stat_home"
  /\ \E ok \in BOOLEAN :
       IF ok
       THEN /\ calls' = Append(calls, Call("stat", chroot_dir, "ok"))
            /\ UNCHANGED diag
       ELSE /\ calls' = calls \o << Call("stat", chroot_dir, "fail"),
                                    Fprintf("home_missing") >>
            /\ diag' = Append(diag, "home_missing")
  /\ pc' = "extract"
  /\ UNCHANGED << euid, ruid, suid, real_user, start, pw_ent, outer_rec, chroot_dir, shell,
                  home_dir, cnt, argv, envp, environ, cwd, root, exit_code, oob >>

\* Extract cutting one level higher, at the first interior separator
Extract_LevelAbove ==
  /\ pc = "extract"
  /\ LET r == ExtractChrootDir(chroot_dir, CHROOT_LEVEL - 1)
     IN /\ cnt' = r.cnt
        /\ chroot_dir' = r.dir
        /\ IF r.cnt < CHROOT_LEVEL - 1
           THEN Die(<< >>, "home_too_short", -1)
           ELSE Go(<< >>, "build_shell")
  /\ UNCHANGED << euid, ruid, suid, real_user, start, pw_ent, outer_rec, shell,
                  home_dir, argv, envp, environ, cwd, root, oob >>

\* lines 116-130
Extract ==
  /\ pc = "extract"
  /\ LET r == ExtractChrootDir(chroot_dir, CHROOT_LEVEL)
     IN /\ cnt' = r.cnt
        /\ chroot_dir' = r.dir
        /\ IF r.cnt < CHROOT_LEVEL
           THEN Die(<< >>, "home_too_short", -1)
           ELSE Go(<< >>, "build_shell")
  /\ UNCHANGED << euid, ruid, suid, real_user, start, pw_ent, outer_rec, shell,
                  home_dir, argv, envp, environ, cwd, root, oob >>

\* lines 135-136.  When strncat's NUL lands on shell[MAX_STRING], the byte hit
\* is whatever the compiler placed behind shell: chroot_dir[0] (hit) or not.
BuildShell ==
  /\ pc = "build_shell"
  /\ LET c == strncpy(chroot_dir, MAX_STRING)
         a == strncat(c.str, SHELL, MAX_STRING - Len(c.str))
     IN /\ shell' = a.str
        /\ IF a.nul >= MAX_STRING
           THEN /\ oob' = oob \cup { [ buf |-> "shell", idx |-> a.nul ] }
                /\ \E hit \in BOOLEAN :
                     chroot_dir' = IF hit THEN << >> ELSE chroot_dir
           ELSE UNCHANGED << oob, chroot_dir >>
  /\ Go(<< >>, "stat_shell")
  /\ UNCHANGED << euid, ruid, suid, real_user, start, pw_ent, outer_rec,
                  home_dir, cnt, argv, envp, environ, cwd, root >>

\* lines 138-147: stat(shell), then S_ISREG
StatShell ==
  /\ pc = "stat_shell"
  /\ \E obj \in ObjKinds :
       LET c == Call("stat", shell, obj)
       IN IF ~StatOk(obj) THEN Die(<< c >>, "shell_no_access", -1)
          ELSE IF ~S_ISREG(obj) THEN Die(<< c >>, "shell_not_regular", -1)
          ELSE Go(<< c >>, "chdir_jail")
  /\ UNCHANGED << euid, ruid, suid, real_user, start, pw_ent, outer_rec, chroot_dir, shell,
                  home_dir, cnt, argv, envp, environ, cwd, root, oob >>

\* ChdirJail left out: the jail is entered by the chroot alone
ChdirJail_Skipped ==
  /\ pc = "chdir_jail"
  /\ Go(<< >>, "chroot")
  /\ UNCHANGED << euid, ruid, suid, real_user, start, pw_ent, outer_rec, chroot_dir, shell,
                  home_dir, cnt, argv, envp, environ, cwd, root, oob >>

\* lines 152-157: chdir(chroot_dir); chdir("") always fails
ChdirJail ==
  /\ pc = "chdir_jail"
  /\ \E ok \in (IF chroot_dir = << >> THEN { FALSE } ELSE BOOLEAN) :
       IF ok
       THEN /\ cwd' = [ root |-> root, path |-> chroot_dir ]
            /\ Go(<< Call("chdir", chroot_dir, "ok") >>, "chroot")
       ELSE /\ UNCHANGED cwd
            /\ Die(<< Call("chdir", chroot_dir, "fail") >>, "chdir_jail_failed", -1)
  /\ UNCHANGED << euid, ruid, suid, real_user, start, pw_ent, outer_rec, chroot_dir, shell,
                  home_dir, cnt, argv, envp, environ, root, oob >>

\* ChrootJail with a message written after the chroot has succeeded
ChrootJail_ThenLog ==
  /\ pc = "chroot"
  /\ \E ok \in BOOLEAN :
       IF ok
       THEN /\ root' = << chroot_dir >>
            /\ Go(<< Call("chroot", chroot_dir, "ok"), Fprintf("entered_jail") >>, "setuid")
       ELSE /\ UNCHANGED root
            /\ Die(<< Call("chroot", chroot_dir, "fail") >>, "chroot_failed", -1)
  /\ UNCHANGED << euid, ruid, suid, real_user, start, pw_ent, outer_rec, chroot_dir, shell,
                  home_dir, cnt, argv, envp, environ, cwd, oob >>

\* lines 158-163: chroot(chroot_dir)
ChrootJail ==
  /\ pc = "chroot"
  /\ \E ok \in BOOLEAN :
       IF ok
       THEN /\ root' = << chroot_dir >>
            /\ Go(<< Call("chroot", chroot_dir, "ok") >>, "setuid")
       ELSE /\ UNCHANGED root
            /\ Die(<< Call("chroot", chroot_dir, "fail") >>, "chroot_failed", -1)
  /\ UNCHANGED << euid, ruid, suid, real_user, start, pw_ent, outer_rec, chroot_dir, shell,
                  home_dir, cnt, argv, envp, environ, cwd, oob >>

\* line 164: setuid(real_user); its result is not looked at.  A privileged
\* caller gets all three ids set; an unprivileged one only the effective id,
\* and only to its real or saved id.
Setuid ==
  /\ pc = "setuid"
  /\ \E ok \in BOOLEAN :
       /\ IF ok /\ euid = 0
          THEN /\ ruid' = real_user /\ euid' = real_user /\ suid' = real_user
          ELSE IF ok /\ real_user \in { ruid, suid }
          THEN /\ euid' = real_user /\ UNCHANGED << ruid, suid >>
          ELSE UNCHANGED << ruid, euid, suid >>
       /\ Go(<< Call("setuid", << real_user >>, IF ok THEN "ok" ELSE "fail") >>,
             "inner_lookup")
  /\ UNCHANGED << real_user, start, pw_ent, outer_rec, chroot_dir, shell,
                  home_dir, cnt, argv, envp, environ, cwd, root, oob >>

\* InnerLookup without the test for NULL of line 169
InnerLookup_NoNullTest ==
  /\ pc = "inner_lookup"
  /\ \E r \in { << >> } \cup { << rec >> : rec \in InnerRecords } :
       /\ pw_ent' = r
       /\ Go(<< Call("getpwuid", << real_user >>, IF r = << >> THEN "null" ELSE "ok") >>,
             "chdir_home")
  /\ UNCHANGED << euid, ruid, suid, real_user, start, outer_rec, chroot_dir, shell,
                  home_dir, cnt, argv, envp, environ, cwd, root, oob >>

\* lines 169-173: getpwuid(real_user) against the jailed database
InnerLookup ==
  /\ pc = "inner_lookup"
  /\ \E r \in { << >> } \cup { << rec >> : rec \in InnerRecords } :
       /\ pw_ent' = r
       /\ LET c == Call("getpwuid", << real_user >>, IF r = << >> THEN "null" ELSE "ok")
          IN IF r = << >> THEN Die(<< c >>, "no_jail_user", -1) ELSE Go(<< c >>, "chdir_home")
  /\ UNCHANGED << euid, ruid, suid, real_user, start, outer_rec, chroot_dir, shell,
                  home_dir, cnt, argv, envp, environ, cwd, root, oob >>

\* lines 178-183: chdir(pw_ent->pw_dir); chdir("") always fails
ChdirHome ==
  /\ pc = "chdir_home"
  /\ LET d == pw_ent[1].pw_dir
     IN \E ok \in (IF d = << >> THEN { FALSE } ELSE BOOLEAN) :
          IF ok
          THEN /\ cwd' = [ root |-> root, path |-> d ]
               /\ Go(<< Call("chdir", d, "ok") >>, "argv0")
          ELSE /\ UNCHANGED cwd
               /\ Die(<< Call("chdir", d, "fail") >>, "chdir_home_failed", -1)
  /\ UNCHANGED << euid, ruid, suid, real_user, start, pw_ent, outer_rec, chroot_dir, shell,
                  home_dir, cnt, argv, envp, environ, root, oob >>

\* RewriteArgv0 with the SHELL constant in place of the record's shell
RewriteArgv0_ShellConstant ==
  /\ pc = "argv0"
  /\ argv' = [ argv EXCEPT ![1] = SHELL ]
  /\ Go(<< >>, "putenv")
  /\ UNCHANGED << euid, ruid, suid, real_user, start, pw_ent, outer_rec, chroot_dir, shell,
                  home_dir, cnt, envp, environ, cwd, root, oob >>

\* line 187: argv[0] = pw_ent->pw_shell
RewriteArgv0 ==
  /\ pc = "argv0"
  /\ argv' = [ argv EXCEPT ![1] = pw_ent[1].pw_shell ]
  /\ Go(<< >>, "putenv")
  /\ UNCHANGED << euid, ruid, suid, real_user, start, pw_ent, outer_rec, chroot_dir, shell,
                  home_dir, cnt, envp, environ, cwd, root, oob >>

\* lines 191-193.  environ still points at the array main() received as envp:
\* a replacement in place is seen through envp, a new array is not.
PutenvHome ==
  /\ pc = "putenv"
  /\ LET h == strcpy(HOME_PREFIX)
         a == strncat(h, pw_ent[1].pw_dir, MAX_STRING - Len(h))
         r == putenv(environ, a.str)
     IN /\ home_dir' = a.str
        /\ oob' = IF a.nul >= MAX_STRING
                  THEN oob \cup { [ buf |-> "home_dir", idx |-> a.nul ] }
                  ELSE oob
        /\ environ' = r.env
        /\ envp' = IF r.inplace THEN r.env ELSE envp
        /\ Go(<< Call("putenv", a.str, "ok") >>, "execve")
  /\ UNCHANGED << euid, ruid, suid, real_user, start, pw_ent, outer_rec, chroot_dir, shell,
                  cnt, argv, cwd, root >>

\* line 196: execve(SHELL, argv, envp); it returns only when it failed
Execve ==
  /\ pc = "execve"
  /\ \E ok \in BOOLEAN :
       IF ok THEN Go(<< Call("execve", SHELL, "ok") >>, "shell")
       ELSE Go(<< Call("execve", SHELL, "fail") >>, "return")
  /\ UNCHANGED << euid, ruid, suid, real_user, start, pw_ent, outer_rec, chroot_dir, shell,
                  home_dir, cnt, argv, envp, environ, cwd, root, oob >>

\* line 198: return 0
Return ==
  /\ pc = "return"
  /\ pc' = "exited"
  /\ exit_code' = { ExitStatus(0) }
  /\ UNCHANGED << euid, ruid, suid, real_user, start, pw_ent, outer_rec, chroot_dir, shell,
                  home_dir, cnt, argv, envp, environ, cwd, root, calls, diag, oob >>

Next ==
  \/ CheckEuid
  \/ CheckRuid
  \/ OuterLookup
  \/ CopyHome
  \/ CheckAbsolute
  \/ StatHome
  \/ Extract
  \/ BuildShell
  \/ StatShell
  \/ ChdirJail
  \/ ChrootJail
  \/ Setuid
  \/ InnerLookup
  \/ ChdirHome
  \/ RewriteArgv0
  \/ PutenvHome
  \/ Execve
  \/ Return

Spec == Init /\ [][Next]_vars

(***************************************************************************)
(* The walk of lines 116-130 on its own: any path in the buffer, any level *)
(* in place of CHROOT_LEVEL.                                               *)
(***************************************************************************)
WalkInit ==
  /\ pc = "walk"
  /\ chroot_dir \in ShortPaths
  /\ cnt = 0
  /\ euid = 0 /\ ruid = 0 /\ suid = 0 /\ real_user = 0
  /\ pw_ent = << >> /\ outer_rec = << >>
  /\ shell = << >> /\ home_dir = << >>
  /\ argv = << Arg0 >> /\ envp = << >> /\ environ = << >>
  /\ start = [ euid |-> 0, ruid |-> 0, argv |-> argv, envp |-> envp ]
  /\ cwd = [ root |-> << >>, path |-> << >> ]
  /\ root = << >>
  /\ calls = << >>
  /\ diag = << >>
  /\ exit_code = {}
  /\ oob = {}

\* lines 116-130 with level for CHROOT_LEVEL; the path walked and the level
\* are recorded with the outcome
ApplyWalk ==
  /\ pc = "walk"
  /\ \E level \in 0..MaxLevel :
       LET r == ExtractChrootDir(chroot_dir, level)
           c == Call("walk", [ path |-> chroot_dir, level |-> level ],
                     IF r.cnt < level THEN "too_short" ELSE "ok")
       IN /\ cnt' = r.cnt
          /\ chroot_dir' = r.dir
          /\ IF r.cnt < level
             THEN Die(<< c >>, "home_too_short", -1)
             ELSE Go(<< c >>, "walked")
  /\ UNCHANGED << euid, ruid, suid, real_user, start, pw_ent, outer_rec, shell,
                  home_dir, argv, envp, environ, cwd, root, oob >>

WalkNext == ApplyWalk

WalkSpec == WalkInit /\ [][WalkNext]_vars

(***************************************************************************)
(* Vocabulary of the properties.                                           *)
(***************************************************************************)
CallIdx(op) == { i \in 1..Len(calls) : calls[i].op = op }

Called(op) == CallIdx(op) # {}

ExitedNonZero == pc = "exited" /\ exit_code # {} /\ 0 \notin exit_code

\* the run is over: the process has exited or the shell has replaced it
Over == pc \in { "exited", "shell" }

\* a step of the jail entry (chdir to the jail, chroot, setuid) has failed:
\* the chdir of the jail entry is the one made before any chroot
JailEntryFailed ==
  \E i \in 1..Len(calls) :
    /\ calls[i].res = "fail"
    /\ \/ calls[i].op \in { "chroot", "setuid" }
       \/ calls[i].op = "chdir" /\ \A j \in CallIdx("chroot") : i < j

(***************************************************************************)
(* C1.  Every failure of a jail-entry step is fatal: in a run where        *)
(* chdir(jail root), chroot(jail root) or setuid(real uid) has failed,     *)
(* execve is never called, and the run ends in a non-zero exit.            *)
(***************************************************************************)
C1_JailEntryFailureFatal ==
  JailEntryFailed => /\ ~Called("execve")
                     /\ Over => ExitedNonZero

(***************************************************************************)
(* C2.  In every state after the setuid step, up to and including the      *)
(* execve call, real uid = effective uid = the original real uid, which is *)
(* not 0.                                                                  *)
(***************************************************************************)
C2_UidsDroppedAfterJailEntry ==
  Called("setuid") => /\ ruid = start.ruid
                      /\ euid = start.ruid
                      /\ start.ruid # 0

(***************************************************************************)
(* C3.  In every run that reaches execve, the calls chdir, chroot, setuid, *)
(* getpwuid, chdir, putenv, execve are made once each (the chdir twice,    *)
(* and the getpwuid once more for the host lookup), as the last seven      *)
(* calls, in this order: chdir(jail root), chroot(jail root),              *)
(* setuid(real uid), the inner lookup, chdir(inner home), the putenv of    *)
(* the HOME string made from the inner home, execve(SHELL); and the setuid *)
(* follows the chroot with no call of any kind between them.               *)
(***************************************************************************)
IsPrefix(a, b) == Len(a) <= Len(b) /\ a = SubSeq(b, 1, Len(a))

C4_PreflightGate ==
  (start.euid # 0 \/ start.ruid = 0) =>
    /\ \A i \in 1..Len(calls) :
         calls[i].op \notin { "getpwuid", "chdir", "chroot", "setuid", "execve" }
    /\ pc \in { "check_euid", "check_ruid", "exited" }
    /\ Over => ExitedNonZero

\* root ran the setuid-root binary and was refused
C4_Witness ==
  /\ start.euid = 0 /\ start.ruid = 0
  /\ pc = "exited"
  /\ exit_code = { 255 }
  /\ diag = << "target_is_root" >>

(***************************************************************************)
(* C5.  Outer-lookup gate: when the host password database has no record   *)
(* for the real uid, the tool exits non-zero, and no chdir, chroot, setuid *)
(* or execve is ever called.                                               *)
(***************************************************************************)
C5_OuterLookupGate ==
  (Called("getpwuid") /\ outer_rec = << >>) =>
    /\ ExitedNonZero
    /\ \A i \in 1..Len(calls) :
         calls[i].op \notin { "chdir", "chroot", "setuid", "execve" }
    /\ Cardinality(CallIdx("getpwuid")) = 1

\* the host lookup came back empty for a non-root user of the setuid binary
C5_Witness ==
  /\ Called("getpwuid") /\ outer_rec = << >>
  /\ start.euid = 0 /\ start.ruid # 0
  /\ pc = "exited"
  /\ diag = << "no_host_user" >>

(***************************************************************************)
(* C6.  Derivation correctness: for an absolute outer home path P and the  *)
(* level L, with S(P) the 0-based positions of "/" in P: when P has at     *)
(* least L+1 separators, the derived jail root is the prefix of P that     *)
(* ends just before position S(P)[L] and the too-short diagnostic is not   *)
(* written; when P has fewer, the tool exits non-zero with the too-short   *)
(* diagnostic and never calls chroot.                                      *)
(***************************************************************************)
SepPositions(P) == { i - 1 : i \in { k \in 1..Len(P) : P[k] = "/" } }

HasLevel(P, L) == Cardinality(SepPositions(P)) >= L + 1

\* S(P)[L]
SepAt(P, L) ==
  LET S == SepPositions(P)
  IN CHOOSE i \in S : Cardinality({ j \in S : j < i }) = L

JailRootOf(P, L) == SubSeq(P, 1, SepAt(P, L))

BeforeExtract == pc \in { "copy_home", "check_absolute", "stat_home", "extract" }

DerivationAsClaimed(P) ==
  IF HasLevel(P, CHROOT_LEVEL)
  THEN /\ \A i \in 1..Len(diag) : diag[i] # "home_too_short"
       /\ pc = "build_shell" => chroot_dir = JailRootOf(P, CHROOT_LEVEL)
  ELSE /\ ~BeforeExtract =>
            /\ ExitedNonZero
            /\ diag # << >> /\ diag[Len(diag)] = "home_too_short"
       /\ ~Called("chroot")

C6_DerivationCorrect ==
  (outer_rec # << >> /\ outer_rec[1].pw_dir # << >> /\ outer_rec[1].pw_dir[1] = "/")
    => DerivationAsClaimed(outer_rec[1].pw_dir)

\* what does hold: the same for the outer home paths that the copy of line 100
\* takes whole, those of fewer than MAX_STRING - 1 characters
DerivationCorrectWithinBuffer ==
  (/\ outer_rec # << >> /\ outer_rec[1].pw_dir # << >> /\ outer_rec[1].pw_dir[1] = "/"
   /\ Len(outer_rec[1].pw_dir) < MAX_STRING - 1)
    => DerivationAsClaimed(outer_rec[1].pw_dir)

(***************************************************************************)
(* C7.  Shell validation: before any chdir to the jail and before any      *)
(* chroot, the path <jail root> + SHELL has been stat'ed as a host path    *)
(* and names a regular file; a path that cannot be stat'ed, a symbolic     *)
(* link, a directory, a device or a socket there ends the run in a non-    *)
(* zero exit without a chroot.                                             *)
(***************************************************************************)
\* the chdir of the jail entry: the one made before any chroot
JailChdirIdx == { j \in CallIdx("chdir") : \A k \in CallIdx("chroot") : j < k }

C7_ShellValidated ==
  \A j \in JailChdirIdx \cup CallIdx("chroot") :
    \E i \in CallIdx("stat") :
      /\ i < j
      /\ calls[i].arg = calls[j].arg \o SHELL
      /\ calls[i].res = "reg"

(***************************************************************************)
(* C8.  HOME environment: in every run that reaches execve, the            *)
(* environment handed to execve holds HOME=<inner home path>, whether the  *)
(* inherited environment had a HOME or not, and the other inherited        *)
(* variables are handed on unchanged, in their order.                      *)
(***************************************************************************)
NotHome(e) == EnvName(e) # << "H", "O", "M", "E" >>

C8_HomeInExecEnvironment ==
  Called("execve") =>
    /\ \E i \in 1..Len(envp) : envp[i] = HOME_PREFIX \o pw_ent[1].pw_dir
    /\ SelectSeq(envp, NotHome) = SelectSeq(start.envp, NotHome)

(***************************************************************************)
(* C9.  Exec target and argv rewrite: the program executed is the SHELL    *)
(* constant, whatever shells the outer and inner password records name;    *)
(* the argv[0] handed to execve is the shell of the inner password record; *)
(* argv[1..] are the inherited arguments.                                  *)
(***************************************************************************)
C9_ExecTargetAndArgv0 ==
  \A i \in CallIdx("execve") :
    /\ calls[i].arg = SHELL
    /\ argv[1] = pw_ent[1].pw_shell
    /\ Len(argv) = Len(start.argv)
    /\ \A k \in 2..Len(argv) : argv[k] = start.argv[k]

\* the shell runs; the inner record names another shell than SHELL, the outer
\* record a third one, and an argument was inherited
C9_Witness ==
  /\ pc = "shell"
  /\ pw_ent[1].pw_shell = BinSh
  /\ outer_rec[1].pw_shell = ChrLogin
  /\ argv = << BinSh, ArgC >>
  /\ calls[Len(calls)] = Call("execve", SHELL, "ok")

(***************************************************************************)
(* C10.  Exec failure is an error: a process that exits, the shell not     *)
(* started, exits with a non-zero code; in particular when execve returns. *)
(***************************************************************************)
C10_ExitNonZeroWithoutShell ==
  pc = "exited" => ExitedNonZero

(***************************************************************************)
(* C11.  A malformed outer home path is fatal: when the outer home path    *)
(* does not begin with "/", no chdir, chroot, setuid or execve is ever     *)
(* called and the run ends in a non-zero exit; so whenever the jail has    *)
(* been entered (a chdir was called) the outer home path is absolute and   *)
(* holds at least CHROOT_LEVEL+1 separators.                               *)
(***************************************************************************)
Absolute(P) == P # << >> /\ P[1] = "/"

C11_MalformedHomeFatal ==
  outer_rec # << >> =>
    /\ ~Absolute(outer_rec[1].pw_dir) =>
         /\ \A i \in 1..Len(calls) :
              calls[i].op \notin { "chdir", "chroot", "setuid", "execve" }
         /\ Over => ExitedNonZero
    /\ Called("chdir") =>
         /\ Absolute(outer_rec[1].pw_dir)
         /\ HasLevel(outer_rec[1].pw_dir, CHROOT_LEVEL)

(***************************************************************************)
(* C12.  A missing outer home directory is fatal: when the stat of the     *)
(* outer home path has failed, no chroot, setuid or execve is ever called  *)
(* and the run ends in a non-zero exit.                                    *)
(***************************************************************************)
\* only the stat of line 108 is recorded with the result "fail"
HomeStatFailed == \E i \in CallIdx("stat") : calls[i].res = "fail"

C12_MissingHomeFatal ==
  HomeStatFailed =>
    /\ \A i \in 1..Len(calls) : calls[i].op \notin { "chroot", "setuid", "execve" }
    /\ Over => ExitedNonZero

(***************************************************************************)
(* C13.  Inner-lookup gate: the lookup in the jailed password database is  *)
(* made only after the setuid call; when it finds no record for the real   *)
(* uid, the run ends in a non-zero exit with the lookup's diagnostic, and  *)
(* no chdir to the inner home, no putenv and no execve follows.            *)
(***************************************************************************)
\* the lookups other than the first one of the run, which is the host's
InnerLookupIdx ==
  { i \in CallIdx("getpwuid") : \E h \in CallIdx("getpwuid") : h < i }

AllCallsSucceeded ==
  \A i \in 1..Len(calls) : calls[i].res \in { "ok", "reg" }

\* the inputs of S1, as far as the run has consumed them
ScenarioS1 ==
  /\ CHROOT_LEVEL = 2
  /\ start.euid = 0 /\ start.ruid = 1000
  /\ outer_rec # << >> /\ outer_rec[1].pw_dir = Jail \o HomeJoe
  /\ InnerLookupIdx # {} => pw_ent = << [ pw_dir |-> HomeJoe, pw_shell |-> SHELL ] >>
  /\ AllCallsSucceeded

JailHome == Jail \o << "/", "h", "o", "m", "e" >>

HomeJoeEntry == HOME_PREFIX \o HomeJoe

\* C14 as stated: in S1 the run chroots to /jail and the shell runs after
\* execve(/bin/bash) with argv[0] = /bin/bash, HOME=/home/joe in its
\* environment and the working directory /home/joe inside the jail /jail.
C14_HappyPathAsStated ==
  ScenarioS1 =>
    /\ pc # "exited"
    /\ Called("chroot") => root = << Jail >>
    /\ pc = "shell" =>
         /\ calls[Len(calls)] = Call("execve", SHELL, "ok")
         /\ argv[1] = SHELL
         /\ \E i \in 1..Len(envp) : envp[i] = HomeJoeEntry
         /\ cwd = [ root |-> << Jail >>, path |-> HomeJoe ]

\* C14, amended: in S1 the jail root is /jail/home, the first two components
\* of the outer home.  The run does not exit; the shell file is looked for at
\* /jail/home/bin/bash, the chroot goes to /jail/home, and the shell runs
\* after execve(/bin/bash) with argv[0] = /bin/bash in the working directory
\* /home/joe inside that jail; HOME=/home/joe is in the process environment,
\* and in the block handed to execve exactly when the inherited block had a
\* HOME entry.
C14_HappyPath ==
  ScenarioS1 =>
    /\ pc # "exited"
    /\ \A i \in CallIdx("stat") :
         calls[i].res = "reg" => calls[i].arg = JailHome \o SHELL
    /\ Called("chroot") => root = << JailHome >>
    /\ pc = "shell" =>
         /\ calls[Len(calls)] = Call("execve", SHELL, "ok")
         /\ argv[1] = SHELL
         /\ cwd = [ root |-> << JailHome >>, path |-> HomeJoe ]
         /\ \E i \in 1..Len(environ) : environ[i] = HomeJoeEntry
         /\ (\E i \in 1..Len(envp) : envp[i] = HomeJoeEntry)
              <=> (\E i \in 1..Len(start.envp) : ~NotHome(start.envp[i]))

C14_Witness ==
  /\ ScenarioS1
  /\ pc = "shell"
  /\ root = << JailHome >>
  /\ cwd.path = HomeJoe

(***************************************************************************)
(* Jail-root invariant.                                                    *)
(***************************************************************************)
\* the chroot calls made, and for each the chdir that went before it
ChrootOfExistingDir(i) ==
  \E j \in CallIdx("chdir") : j < i /\ calls[j].arg = calls[i].arg /\ calls[j].res = "ok"

EndsWithSeparator(P) == P # << >> /\ P[Len(P)] = "/"

\* separators L-1 and L of P (0-based in S(P)) are next to each other
CutAfterSeparator(P, L) ==
  /\ L >= 1
  /\ HasLevel(P, L)
  /\ SepAt(P, L - 1) + 1 = SepAt(P, L)

\* C15 as stated: whenever chroot is called, its argument is a non-empty
\* prefix of the outer home path, does not end with a separator, and names an
\* existing directory (the one the preceding chdir entered); for every outer
\* home path, those with consecutive or trailing separators included.
C15_JailRootAsStated ==
  \A i \in CallIdx("chroot") :
    /\ calls[i].arg # << >>
    /\ IsPrefix(calls[i].arg, outer_rec[1].pw_dir)
    /\ ~EndsWithSeparator(calls[i].arg)
    /\ ChrootOfExistingDir(i)

\* C15, amended: whenever chroot is called, its argument is a non-empty prefix
\* of the outer home path and names an existing directory (the one the
\* preceding chdir entered).  For an outer home path of fewer than
\* MAX_STRING - 1 characters it ends with a separator exactly when the
\* separator the walk cuts at directly follows another one (/a//b gives /a/);
\* a trailing separator of the home path does not matter.
C15_JailRoot ==
  \A i \in CallIdx("chroot") :
    /\ calls[i].arg # << >>
    /\ IsPrefix(calls[i].arg, outer_rec[1].pw_dir)
    /\ ChrootOfExistingDir(i)
    /\ Len(outer_rec[1].pw_dir) < MAX_STRING - 1 =>
         (EndsWithSeparator(calls[i].arg)
            <=> CutAfterSeparator(outer_rec[1].pw_dir, CHROOT_LEVEL))

\* a chroot to /a/ for a home path with consecutive separators
C15_Witness ==
  /\ Called("chroot")
  /\ root # << >> /\ EndsWithSeparator(root[1])
  /\ Len(outer_rec[1].pw_dir) < MAX_STRING - 1
  /\ CutAfterSeparator(outer_rec[1].pw_dir, CHROOT_LEVEL)

(***************************************************************************)
(* C16.  Inner-home invariant: in every run that reaches putenv or execve, *)
(* the home path of the jailed password record begins with "/" and names   *)
(* an existing directory, the working directory at that point.             *)
(***************************************************************************)
ReachedPutenv == pc = "putenv" \/ Called("putenv")

C16_InnerHomeInvariant ==
  ReachedPutenv =>
    /\ Absolute(pw_ent[1].pw_dir)
    /\ cwd = [ root |-> root, path |-> pw_ent[1].pw_dir ]

(***************************************************************************)
(* Mutations of process-wide state: the working directory, the filesystem  *)
(* root, the user ids and the environment.                                 *)
(***************************************************************************)
IsMutation(c) == c.op \in { "chdir", "chroot", "setuid", "putenv" } /\ c.res = "ok"

MutationOf(c) ==
  IF c.op = "chdir" THEN "cwd"
  ELSE IF c.op = "chroot" THEN "root"
  ELSE IF c.op = "setuid" THEN "uid"
  ELSE "env"

\* what the run has changed so far, in order
Mutations ==
  LET m == SelectSeq(calls, IsMutation)
  IN [ i \in 1..Len(m) |-> MutationOf(m[i]) ]

TimesChanged(what) == Cardinality({ i \in 1..Len(Mutations) : Mutations[i] = what })

\* the calls a step has made
NewCalls == SubSeq(calls', Len(calls) + 1, Len(calls'))

Made(op) == \E i \in 1..Len(NewCalls) : NewCalls[i].op = op /\ NewCalls[i].res = "ok"

\* a step changes a piece of process-wide state only by the call for it, and
\* that call changes it
FrameStep ==
  /\ cwd' # cwd <=> Made("chdir")
  /\ root' # root <=> Made("chroot")
  /\ << ruid, euid, suid >>' # << ruid, euid, suid >> <=> Made("setuid")
  /\ environ' # environ <=> Made("putenv")
  /\ envp' # envp => Made("putenv")

\* C17 as stated: each of the working directory, the filesystem root, the uid
\* and the environment is changed at most once in every run, and in a run that
\* reaches execve exactly once each, in that order.
C17_SingleMutationAsStated ==
  /\ \A what \in { "cwd", "root", "uid", "env" } : TimesChanged(what) <= 1
  /\ Called("execve") => Mutations = << "cwd", "root", "uid", "env" >>

\* C17, amended: the working directory is changed twice (to the jail root
\* before the chroot, to the inner home after the inner lookup); the filesystem
\* root, the uid and the environment are changed at most once.  The changes
\* come in the order working directory, root, uid, working directory,
\* environment, and a run that reaches execve has made all of them, except the
\* uid change when the setuid call failed.  Nothing else in the run changes
\* any of the four.
C17_Mutations ==
  /\ [](/\ \/ IsPrefix(Mutations, << "cwd", "root", "uid", "cwd", "env" >>)
           \/ IsPrefix(Mutations, << "cwd", "root", "cwd", "env" >>)
        /\ Called("execve") =>
             /\ Len(Mutations) >= 4
             /\ TimesChanged("uid") = 0 <=>
                  \E i \in CallIdx("setuid") : calls[i].res = "fail")
  /\ [][FrameStep]_vars

C17_Witness ==
  /\ Called("execve")
  /\ Mutations = << "cwd", "root", "uid", "cwd", "env" >>
  /\ cwd.path = pw_ent[1].pw_dir /\ cwd.root = root /\ root # << >>
  /\ euid = start.ruid
  /\ environ # start.envp

(***************************************************************************)
(* The component-split derivation: P split at every "/", the first L + 1   *)
(* components joined with "/"; an error when P has fewer components.       *)
(***************************************************************************)
\* component k (0-based) of P: what lies between separators k - 1 and k
Component(P, k) ==
  LET n == Cardinality(SepPositions(P))
      from == IF k = 0 THEN 1 ELSE SepAt(P, k - 1) + 2
      to == IF k = n THEN Len(P) ELSE SepAt(P, k)
  IN SubSeq(P, from, to)

Split(P) == [ k \in 1..(Cardinality(SepPositions(P)) + 1) |-> Component(P, k - 1) ]

RECURSIVE Join(_)
Join(comps) ==
  IF comps = << >> THEN << >>
  ELSE IF Len(comps) = 1 THEN comps[1]
  ELSE comps[1] \o << "/" >> \o Join(Tail(comps))

SplitJoin(P, L) ==
  IF Len(Split(P)) < L + 1
  THEN [ ok |-> FALSE, dir |-> << >> ]
  ELSE [ ok |-> TRUE, dir |-> Join(SubSeq(Split(P), 1, L + 1)) ]

\* the outcome of the walk step just made: the jail root left in the buffer,
\* or the too-short error
WalkOutcome ==
  IF calls[1].res = "ok"
  THEN [ ok |-> TRUE, dir |-> chroot_dir ]
  ELSE [ ok |-> FALSE, dir |-> << >> ]

Walked == calls # << >> /\ calls[1].op = "walk"

\* C18 as stated: for every path P and level L the walk and the component
\* split have the same outcome: the same jail root when the walk succeeds, an
\* error when the walk reports the path as too short.
C18_WalkIsSplitJoinAsStated ==
  Walked => WalkOutcome = SplitJoin(calls[1].arg.path, calls[1].arg.level)

\* C18, amended: for every path P and level L the walk and the component
\* split have the same outcome unless P has exactly L separators; then P has
\* L + 1 components, the component split yields P itself, and the walk reports
\* the path as too short.
C18_WalkIsSplitJoin ==
  Walked =>
    LET P == calls[1].arg.path
        L == calls[1].arg.level
    IN IF Cardinality(SepPositions(P)) = L
       THEN /\ ~WalkOutcome.ok
            /\ diag = << "home_too_short" >>
            /\ SplitJoin(P, L) = [ ok |-> TRUE, dir |-> P ]
       ELSE WalkOutcome = SplitJoin(P, L)

\* the walk has cut /a/a/a at level 2
C18_Witness ==
  /\ Walked
  /\ pc = "walked"
  /\ calls[1].arg.level = CHROOT_LEVEL
  /\ Len(calls[1].arg.path) = MaxLen
  /\ chroot_dir = << "/", "a", "/", "a" >>
  /\ SplitJoin(calls[1].arg.path, CHROOT_LEVEL).dir = chroot_dir

(***************************************************************************)
(* C19.  Buffer bounds: for every length of the outer and the inner home   *)
(* path, every write into chroot_dir, shell and home_dir, the terminating  *)
(* zero included, lands at an index in 0..MAX_STRING-1, and each buffer    *)
(* holds a zero-terminated string of fewer than MAX_STRING characters.     *)
(***************************************************************************)
C19_BufferBounds ==
  /\ \A w \in oob : w.idx \in 0..(MAX_STRING - 1)
  /\ Len(chroot_dir) < MAX_STRING
  /\ Len(shell) < MAX_STRING
  /\ Len(home_dir) < MAX_STRING

====
